---- MODULE Spec2Model ----
(***************************************************************************)
(* LADS LuminescenceReader sample server: the program-run orchestration    *)
(* of src/src/lads-server.ts (startProgram, runProgram, stopProgram,       *)
(* abortProgram) together with the device supervisor LADSDeviceHelper of   *)
(* src/src/lads-utils.ts (health reaction, debounced machinery-item-state  *)
(* projection, power cycle).                                               *)
(*                                                                         *)
(* Time.  All waiting in the code is sleepMilliSeconds(ms), a setTimeout.  *)
(* A pending timeout is a record of the sequence `timers` holding the      *)
(* milliseconds left (rem).  Advance lets time pass up to the next         *)
(* deadline; a timer whose rem is 0 is due and fires before time passes    *)
(* again.  Timers of the same delay fire in the order they were set (one   *)
(* timer list per delay); due timers of different delays fire in either    *)
(* order, since setTimeout only guarantees a minimum delay.  Method calls  *)
(* and health reports arrive at any instant.                               *)
(*                                                                         *)
(* Every handler runs to its next await without interruption (one thread   *)
(* of control), so each action below is one such uninterrupted stretch,    *)
(* with the value_changed handlers that setState calls synchronously.      *)
(***************************************************************************)
EXTENDS Integers, Sequences, FiniteSets, Bags, TLC

(* ---- bounds of the model ---------------------------------------------- *)
\* successful startProgram calls explored (the runId counter is unbounded)
MaxRuns == 2
\* successful startProgram calls explored where runs overlap (SpecRuns)
MaxOverlappingRuns == 3
\* main-phase increments of one run; the source runs runTime / delta = 60
RunTicks == 2
\* initialization and shutdown timers pending at once (SpecDevice)
MaxPowerTimers == 2
\* stop dwell timers of the temperature controller pending at once
MaxControllerTimers == 1
\* calls of buildLADSEventNotifierTree on one device (SpecNotifier)
MaxBuilds == 3
\* successful startProgram calls explored with the events (SpecEvents)
MaxEventRuns == 1
\* nodes below the device on the way down to a variable (SpecAlias)
MaxDepth == 3
\* successful startProgram calls explored beside cover and controller (SpecOwners)
MaxOwnerRuns == 1

\* successful startProgram calls explored beside the power cycle (SpecPower)
MaxPowerRuns == 1

(* ---- program constants (milliseconds) --------------------------------- *)
delta == 500
finishTime == 2000
runTime == RunTicks * delta
stopGrace == 1000
healthGrace == 1000
debounceTime == 50
initializationTime == 2000
shutdownTime == 2000

\* the device of the server has one functional unit, luminescenceReaderUnit
NumUnits == 1
Units == 1..NumUnits

(* ---- state names ------------------------------------------------------ *)
Running == "Running"
Stopping == "Stopping"
Stopped == "Stopped"
Aborting == "Aborting"
Aborted == "Aborted"
Clearing == "Clearing"
LADSFunctionalState == {Clearing, Running, Stopping, Stopped, Aborting, Aborted}

LADSCoverState == {"Opened", "Closed", "Locked"}
LADSDeviceState == {"Initialization", "Operate", "Sleep", "Shutdown"}
MachineryItemState == {"NotAvailable", "Executing", "NotExecuting", "OutOfService"}
MachineryOperationMode == {"None", "Processing", "Maintenance", "Setup"}

\* values of the deviceHealth variable the model reports
EnumDeviceHealth == {"NORMAL", "FAILURE", "MAINTENANCE_REQUIRED"}

Good == "Good"
BadInvalidState == "BadInvalidState"
BadInvalidArgument == "BadInvalidArgument"

\* the template set of the unit
ProgramTemplates == {"T1"}

\* String.prototype.includes on the state names the program uses: the only
\* name that is a proper substring of another is Executing, of NotExecuting
Includes(s, sub) ==
    \/ s = sub
    \/ (s = "NotExecuting" /\ sub = "Executing")

\* state2str: null (modelled as "") becomes ''
state2str(value) == value

VARIABLES
    unitState,      \* [Units -> name]: functionalUnitState.currentState
    tcState,        \* temperatureController.controlFunctionState.currentState
    coverState,     \* cover.coverState.currentState
    deviceState,    \* device.deviceState.currentState
    itemState,      \* device.machineryItemState.currentState
    opMode,         \* device.machineryOperationMode.currentState
    health,         \* device.deviceHealth
    runId,          \* the counter of startProgram
    runs,           \* runs[k]: the runProgram invocation of Run-k
    results,        \* results[k]: the Result object of Run-k
    activeProgram,  \* [Units -> snapshot]: programManager.activeProgram
    timers,         \* pending setTimeout callbacks
    \* history variables, written by no handler: each specification records
    \* the ones its properties read and leaves the others as they are
    last,           \* the method call of the last step and what it returned
    watch,          \* [Units -> the stop or abort accepted since the last start]
    clean,          \* live runs with no stop, abort or FAILURE since their start
    left,           \* main-phase runs whose unit left Running since their last check
    early,          \* finalizing runs that left the main loop by its break
    cycle,          \* the power cycle since a gotoShutdown accepted in Operate
    \* the address space under the device
    functions,      \* the function objects present below the functional units
    references,     \* bag of HasNotifier references <<source node, target node>>
    eventNotifier,  \* the nodes setEventNotifier(1) was called on
    builds,         \* calls of buildLADSEventNotifierTree so far
    unchanged,      \* no function was added since the last call
    \* the supervisor's events
    raiseEvents,    \* options.raiseEvents of the LADSDeviceHelper
    observed,       \* the value_changed notifications of the last step, in order
    events,         \* the events the supervisor raised in the last step, in order
    \* alias names
    ancestry,       \* the nodes from the topmost ancestor down to a variable
    aliasName,      \* what getAliasName returned for that variable, once called
    \* promoted state machines
    helpers         \* the LADSFiniteStateMachineHelper objects under study

prog == <<unitState, tcState, coverState, deviceState, itemState, opMode, health, runId,
          runs, results, activeProgram, timers>>
hist == <<last, watch, clean, left, early, cycle>>
space == <<functions, references, eventNotifier, builds, unchanged>>
emission == <<raiseEvents, observed, events>>
aliasing == <<ancestry, aliasName>>
machines == <<helpers>>
vars == <<prog, hist, space, emission, aliasing, machines>>

(* ---- timers ----------------------------------------------------------- *)
\* kind: "tick" (run loop sleep of run `run`), "dwell" (setState(to) on unit),
\* "debounce" (adjustMachineryItemState), "init" (enterDeviceOperating),
\* "shutdown" (enterDeviceInitialzation), "tcdwell" (setState(to) on the
\* temperature controller); src names the handler that set it
sleepMilliSeconds(kind, ms, unit, run, to, src) ==
    [kind |-> kind, delay |-> ms, rem |-> ms, unit |-> unit, run |-> run,
     to |-> to, src |-> src]

TickTimer(r, u) == sleepMilliSeconds("tick", delta, u, r, "", "runProgram")
DebounceTimer(u) ==
    sleepMilliSeconds("debounce", debounceTime, u, 0, "", "onFunctionalUnitStateChanged")

\* setTimeout: the pending timers are kept in the order of their deadlines,
\* timers of one deadline by delay and then in the order they were set
Before(a, b) == a.rem < b.rem \/ (a.rem = b.rem /\ a.delay <= b.delay)

Schedule(tm, t) ==
    LET n == Cardinality({j \in 1..Len(tm) : Before(tm[j], t)}) IN
    [j \in 1..(Len(tm) + 1) |->
        IF j <= n THEN tm[j] ELSE IF j = n + 1 THEN t ELSE tm[j - 1]]

RemoveAt(s, i) == [j \in 1..(Len(s) - 1) |-> IF j < i THEN s[j] ELSE s[j + 1]]

\* a due timer fires unless an earlier timer of the same delay is due too
CanFire(i) ==
    /\ i \in 1..Len(timers)
    /\ timers[i].rem = 0
    /\ \A j \in 1..(i - 1) : ~(timers[j].rem = 0 /\ timers[j].delay = timers[i].delay)

MinRem == CHOOSE m \in {timers[i].rem : i \in 1..Len(timers)} :
              \A i \in 1..Len(timers) : m <= timers[i].rem

(* ---- records ---------------------------------------------------------- *)
\* Date values: a Result keeps its timestamps on the clock of its own run,
\* started at 0; Stamp keeps of a later reading only that it is later
Stamp(elapsed) == IF elapsed > 0 THEN 1 ELSE 0
NoStamp == -1

NewResult == [started |-> Stamp(0), stopped |-> NoStamp, variables |-> 0]

\* a runProgram invocation: pc "main" (sleeping in the first loop), "final"
\* (sleeping in the second loop), "done" (returned; its locals are dead);
\* elapsed is the time since the run started, kept until its one reading,
\* the stop timestamp taken after the first loop
NewRun(u) == [unit |-> u, pc |-> "main", t |-> 0, elapsed |-> 0]
DoneRun(u) == [unit |-> u, pc |-> "done", t |-> 0, elapsed |-> 0]

LiveRuns(u) == {r \in 1..Len(runs) : runs[r].pc # "done" /\ runs[r].unit = u}

InitialProgram ==
    [currentProgramTemplate |-> "", currentRuntime |-> 0, currentStepName |-> "",
     currentStepNumber |-> 0, currentStepRuntime |-> 0, estimatedRuntime |-> 0,
     estimatedStepRuntime |-> 0, estimatedStepNumbers |-> 0, deviceProgramRunId |-> 0]

(* ---- the supervisor's projection -------------------------------------- *)
functionalUnitsRunnning(us) ==
    Cardinality({u \in Units : Includes(state2str(us[u]), Running)})

\* a projection that needs two Running units
adjustMachineryItemState_TwoUnits(us) ==
    IF functionalUnitsRunnning(us) > 1 THEN "Executing" ELSE "NotExecuting"

adjustMachineryItemState(us) ==
    IF functionalUnitsRunnning(us) > 0 THEN "Executing" ELSE "NotExecuting"

(* ---- event-notifier tree ----------------------------------------------- *)
\* The objects below the device.  The functional unit and its functions
\* temperatureController and cover are the ones of the server; a function set
\* below a function is what getLADSFunctions descends into when recursive.
\* The sequences give the order of findReferencesExAsObject.
FunctionalUnitNames == <<"functionalUnit">>
FunctionNames == <<"temperatureController", "cover", "temperatureSensor", "probe">>
FunctionParent ==
    [temperatureController |-> "functionalUnit",
     cover |-> "functionalUnit",
     temperatureSensor |-> "temperatureController",
     probe |-> "temperatureSensor"]

Node(kind, id) == [kind |-> kind, id |-> id]
device == Node("Device", "device")
functionalUnitSet == Node("FunctionalUnitSet", "device")
functionalUnit(name) == Node("FunctionalUnit", name)
functionSet(parent) == Node("FunctionSet", parent.id)
ladsFunction(name) == Node("Function", name)

SeqToSet(sq) == {sq[i] : i \in 1..Len(sq)}

\* the sets of functions an address space can hold: a function needs its parent
FunctionTrees ==
    {fs \in SUBSET SeqToSet(FunctionNames) :
        \A f \in fs : \/ FunctionParent[f] \in SeqToSet(FunctionalUnitNames)
                      \/ FunctionParent[f] \in fs}

\* parent.functionSet: a functional unit has one, a function has one when it
\* holds functions
HasFunctionSet(fns, parent) ==
    \/ parent.kind = "FunctionalUnit"
    \/ \E f \in fns : FunctionParent[f] = parent.id

\* functionSet.findReferencesExAsObject(HasChild), the functions among them
ChildFunctions(fns, parent) ==
    SelectSeq(FunctionNames, LAMBDA f : f \in fns /\ FunctionParent[f] = parent.id)

\* node.findReferencesAsObject(HasNotifier): the targets of the node's references
findReferencesAsObject(refs, node) ==
    {e[2] : e \in {x \in BagToSet(refs) : x[1] = node}}

\* the two calls the builder makes on nodes, in the order it makes them
AddReferenceCall(node, to) == [op |-> "addReference", node |-> node, to |-> to]
SetEventNotifierCall(node) == [op |-> "setEventNotifier", node |-> node, to |-> node]

\* getLADSFunctions(parent, recursive = true, addHasNotifierReferences): the
\* calls it makes; refs are the references when buildLADSEventNotifierTree is
\* entered, and the call itself adds only parent -> functionSet before it reads
\* the references of parent
RECURSIVE getLADSFunctions(_, _, _, _)
RECURSIVE ForEachFunction(_, _, _, _, _)
getLADSFunctions(refs, fns, parent, addHasNotifierReferences) ==
    IF ~HasFunctionSet(fns, parent) THEN <<>>
    ELSE (IF addHasNotifierReferences
          THEN <<AddReferenceCall(parent, functionSet(parent)),
                 SetEventNotifierCall(parent),
                 SetEventNotifierCall(functionSet(parent))>>
          ELSE <<>>)
         \o ForEachFunction(refs, fns, parent, addHasNotifierReferences,
                            ChildFunctions(fns, parent))

ForEachFunction(refs, fns, parent, addHasNotifierReferences, nodes) ==
    IF nodes = <<>> THEN <<>>
    ELSE LET node == ladsFunction(Head(nodes))
             notifierReferences ==
                 findReferencesAsObject(refs, parent) \cup
                 (IF addHasNotifierReferences THEN {functionSet(parent)} ELSE {})
         IN (IF addHasNotifierReferences /\ node \notin notifierReferences
             THEN <<SetEventNotifierCall(node),
                    AddReferenceCall(functionSet(parent), node)>>
             ELSE <<>>)
            \* the recursive call passes no addHasNotifierReferences
            \o getLADSFunctions(refs, fns, node, FALSE)
            \o ForEachFunction(refs, fns, parent, addHasNotifierReferences,
                               Tail(nodes))

\* functionalUnits.forEach of buildLADSEventNotifierTree
RECURSIVE ForEachFunctionalUnit(_, _, _, _)
ForEachFunctionalUnit(refs, fns, notifierReferences, names) ==
    IF names = <<>> THEN <<>>
    ELSE LET unit == functionalUnit(Head(names))
         IN (IF unit \notin notifierReferences
             THEN <<SetEventNotifierCall(unit),
                    AddReferenceCall(functionalUnitSet, unit)>>
             ELSE <<>>)
            \o getLADSFunctions(refs, fns, unit, TRUE)
            \o ForEachFunctionalUnit(refs, fns, notifierReferences, Tail(names))

\* the calls of buildLADSEventNotifierTree(device)
NotifierTreeCalls(refs, fns) ==
    LET notifierReferences == findReferencesAsObject(refs, device)
    IN <<AddReferenceCall(device, functionalUnitSet),
         SetEventNotifierCall(device),
         SetEventNotifierCall(functionalUnitSet)>>
       \o ForEachFunctionalUnit(refs, fns, notifierReferences, FunctionalUnitNames)

\* What addReference does with a reference its node already holds is the
\* library's, not the program's: the reference is merged into the one held,
\* or held twice, or the call is rejected with an exception, which ends the
\* builder where it stands.
AddReferenceOutcomes == {"merged", "duplicated", "rejected"}

\* the calls applied in order to the address space st
RECURSIVE ApplyCalls(_, _, _)
ApplyCalls(calls, st, onExisting) ==
    IF calls = <<>> THEN st
    ELSE LET c == Head(calls)
             added == [st EXCEPT
                          !.references = @ (+) SetToBag({<<c.node, c.to>>})]
         IN IF c.op = "setEventNotifier"
            THEN ApplyCalls(Tail(calls),
                            [st EXCEPT !.eventNotifier = @ \cup {c.node}],
                            onExisting)
            ELSE IF ~BagIn(<<c.node, c.to>>, st.references)
            THEN ApplyCalls(Tail(calls), added, onExisting)
            ELSE IF onExisting = "merged"
            THEN ApplyCalls(Tail(calls), st, onExisting)
            ELSE IF onExisting = "duplicated"
            THEN ApplyCalls(Tail(calls), added, onExisting)
            ELSE st

\* the address space after buildLADSEventNotifierTree(device)
NotifierTree(refs, marked, fns, onExisting) ==
    ApplyCalls(NotifierTreeCalls(refs, fns),
               [references |-> refs, eventNotifier |-> marked], onExisting)

buildLADSEventNotifierTree ==
    /\ builds < MaxBuilds
    /\ \E onExisting \in AddReferenceOutcomes :
         LET st == NotifierTree(references, eventNotifier, functions, onExisting)
         IN /\ references' = st.references
            /\ eventNotifier' = st.eventNotifier
    /\ builds' = builds + 1
    /\ unchanged' = TRUE
    /\ UNCHANGED functions

\* a function object is added to a function set of the address space
AddFunction(name) ==
    /\ name \notin functions
    /\ functions \cup {name} \in FunctionTrees
    /\ functions' = functions \cup {name}
    /\ unchanged' = FALSE
    /\ UNCHANGED <<references, eventNotifier, builds>>

\* the functions of the server's functional unit
ServerFunctions == {"temperatureController", "cover"}

(* ---- alias names -------------------------------------------------------- *)
\* a node of the address space: its node id and browseName.name; only the ids
\* of the Objects folder and of the device set are compared
BaseNode(nodeId, name) == [nodeId |-> nodeId, name |-> name]
ObjectsFolder == "ObjectsFolder"
deviceSet == "deviceSet"

\* the browse names below the device set the inputs are made of
BrowseNames ==
    {"LuminescenceReader", "FunctionalUnitSet", "FunctionSet",
     "TemperatureController", "CurrentValue"}

NoAlias == "(no call)"

\* getParents(node, rootNodeId) for the node at position i of the chain of
\* parentNodeId: the recursive call passes no rootNodeId, which then is the
\* Objects folder
RECURSIVE getParents(_, _, _)
getParents(chain, i, rootNodeId) ==
    IF chain[i].nodeId = rootNodeId THEN <<chain[i]>>
    ELSE IF i > 1
         THEN Append(getParents(chain, i - 1, ObjectsFolder), chain[i])
         ELSE <<chain[i]>>

StructuralNames ==
    {"DeviceSet", "FunctionalUnitSet", "FunctionSet", "Components", "TaskSet",
     "DeviceState", "FunctionalUnitState", "ProgramManager", "ControlFunctionState",
     "CoverState", "unknown"}

RECURSIVE join(_, _)
join(names, separator) ==
    IF names = <<>> THEN ""
    ELSE IF Len(names) = 1 THEN names[1]
    ELSE names[1] \o separator \o join(Tail(names), separator)

getAliasName(chain, i) ==
    LET nodes == getParents(chain, i, deviceSet)
        names == [k \in 1..Len(nodes) |->
                     IF nodes[k].name # "" THEN nodes[k].name ELSE "unknown"]
        filteredNames == SelectSeq(names, LAMBDA name : name \notin StructuralNames)
    IN join(filteredNames, "_")

\* the chains of nodes a variable can hang on: the device set, below the
\* Objects folder or with no parent of its own, and up to MaxDepth nodes below
RECURSIVE Chains(_)
Chains(n) ==
    IF n = 0 THEN {<<>>}
    ELSE LET shorter == Chains(n - 1)
         IN shorter \cup {Append(c, BaseNode("node", name)) :
                             c \in {x \in shorter : Len(x) = n - 1},
                             name \in BrowseNames}

Ancestries ==
    {top \o <<BaseNode(deviceSet, "DeviceSet")>> \o below :
        top \in {<<>>, <<BaseNode(ObjectsFolder, "Objects")>>},
        below \in Chains(MaxDepth) \ {<<>>}}

getAliasNameCall ==
    /\ aliasName = NoAlias
    /\ aliasName' = getAliasName(ancestry, Len(ancestry))
    /\ UNCHANGED ancestry

(* ---- promoted state machines ------------------------------------------- *)
\* the orders in which getStates() can list the states of a machine
StateOrders(S) ==
    {sq \in [1..Cardinality(S) -> S] :
        \A i, j \in 1..Cardinality(S) : i # j => sq[i] # sq[j]}

\* a helper and its machine: states is getStates(), currentState the text of
\* stateMachine.currentState and the machine's currentStateNode ("" before
\* the first setState), currentStateId the state currentState.id refers to,
\* effectiveDisplayName the text of currentState.effectiveDisplayName,
\* parentStateMachineHelper the index of the parent's helper or 0; the
\* display name of a state is its name
LADSFiniteStateMachineHelper(states, parentStateMachineHelper) ==
    [states |-> states, currentState |-> "", currentStateId |-> "",
     effectiveDisplayName |-> "",
     parentStateMachineHelper |-> parentStateMachineHelper]

RECURSIVE setEffectiveDisplayName(_, _, _)
setEffectiveDisplayName(hs, h, states) ==
    LET named == [hs EXCEPT ![h].effectiveDisplayName = join(states, ".")]
        parent == hs[h].parentStateMachineHelper
    IN IF parent # 0 /\ hs[parent].currentState # ""
       THEN setEffectiveDisplayName(named, parent, <<hs[parent].currentState>> \o states)
       ELSE named

\* states.find: the first state of getStates() whose name the text includes
findState(states, stateName) ==
    LET hits == {k \in 1..Len(states) : Includes(stateName, states[k])}
    IN IF hits = {} THEN 0 ELSE CHOOSE k \in hits : \A l \in hits : k <= l

onCurrentStateChanged(hs, h, stateName) ==
    LET k == findState(hs[h].states, stateName)
    IN IF k = 0 THEN hs
       ELSE setEffectiveDisplayName([hs EXCEPT ![h].currentStateId = hs[h].states[k]],
                                    h, <<hs[h].states[k]>>)

\* setState of the promoted machine is library code: it writes the text of
\* currentState, which notifies the helper, and it either leaves
\* currentState.id to the helper or writes it itself after the notification
CurrentStateIdWriters == {"helper", "library"}

setState(h, toState, idWriter) ==
    /\ helpers[h].currentState # toState
    /\ helpers' =
         LET notified == onCurrentStateChanged(
                             [helpers EXCEPT ![h].currentState = toState], h, toState)
         IN IF idWriter = "library"
            THEN [notified EXCEPT ![h].currentStateId = toState]
            ELSE notified

(* ---- initial state: the server after main() has run ------------------- *)
NoCall == [op |-> "", unit |-> 0, status |-> "", out |-> 0]

InitProgram ==
    /\ unitState = [u \in Units |-> Stopped]
    /\ tcState = Stopped
    /\ coverState = "Closed"
    /\ deviceState = "Initialization"
    /\ itemState = adjustMachineryItemState([u \in Units |-> Stopped])
    /\ opMode = "None"
    /\ health = "NORMAL"
    /\ runId = 0
    /\ runs = <<>>
    /\ results = <<>>
    /\ activeProgram = [u \in Units |-> InitialProgram]
    /\ timers = <<sleepMilliSeconds("init", initializationTime, 0, 0, "",
                                    "enterDeviceInitialzation")>>
    /\ last = NoCall
    /\ watch = [u \in Units |-> "none"]
    /\ clean = {}
    /\ left = {}
    /\ early = {}
    /\ cycle = "none"

\* the constructor of LADSDeviceHelper has built the notifier tree once
Init ==
    /\ InitProgram
    /\ functions = ServerFunctions
    /\ LET st == NotifierTree(EmptyBag, {}, ServerFunctions, "merged")
       IN /\ references = st.references
          /\ eventNotifier = st.eventNotifier
    /\ builds = 1
    /\ unchanged = TRUE
    /\ raiseEvents = TRUE
    /\ observed = <<>>
    /\ events = <<>>
    /\ ancestry = <<>>
    /\ aliasName = NoAlias
    /\ helpers = <<>>

(* ---- startProgram and the synchronous head of runProgram -------------- *)
\* a guard that also lets a unit in its stop dwell start
CanStart_AlsoStopping(currentState) ==
    /\ currentState # ""
    /\ \/ Includes(currentState, Stopped)
       \/ Includes(currentState, Aborted)
       \/ Includes(currentState, Stopping)

\* the guard of startProgram
CanStart(currentState) ==
    /\ currentState # ""
    /\ (Includes(currentState, Stopped) \/ Includes(currentState, Aborted))

startProgramStatus(u) == IF CanStart(unitState[u]) THEN Good ELSE BadInvalidState

\* a runProgram that leaves the unit's state to its first tick
runProgram_UnitNotRunning(u, id, tpl) ==
    /\ results' = Append(results, NewResult)
    /\ activeProgram' = [activeProgram EXCEPT ![u] =
           [currentProgramTemplate |->
                IF tpl \in ProgramTemplates THEN tpl ELSE @.currentProgramTemplate,
            currentRuntime |-> 0,
            currentStepName |-> "Measure",
            currentStepNumber |-> 1,
            currentStepRuntime |-> 0,
            estimatedRuntime |-> runTime + finishTime,
            estimatedStepRuntime |-> runTime,
            estimatedStepNumbers |-> 2,
            deviceProgramRunId |-> id]]
    /\ tcState' = Running
    /\ runs' = Append(runs, NewRun(u))
    /\ timers' = Schedule(timers, TickTimer(id, u))
    /\ UNCHANGED unitState

\* runProgram up to its first await: the Result, the template, the snapshot,
\* unit and temperature controller to Running, the first progress update
runProgram(u, id, tpl) ==
    /\ results' = Append(results, NewResult)
    /\ activeProgram' = [activeProgram EXCEPT ![u] =
           [currentProgramTemplate |->
                IF tpl \in ProgramTemplates THEN tpl ELSE @.currentProgramTemplate,
            currentRuntime |-> 0,
            currentStepName |-> "Measure",
            currentStepNumber |-> 1,
            currentStepRuntime |-> 0,
            estimatedRuntime |-> runTime + finishTime,
            estimatedStepRuntime |-> runTime,
            estimatedStepNumbers |-> 2,
            deviceProgramRunId |-> id]]
    /\ unitState' = [unitState EXCEPT ![u] = Running]
    /\ tcState' = Running
    /\ runs' = Append(runs, NewRun(u))
    /\ timers' = Schedule(Schedule(timers, DebounceTimer(u)), TickTimer(id, u))

\* a startProgram whose refused call takes a run identifier too
startProgram_CountsRefused(u, tpl, limit) ==
    /\ runId < limit
    /\ runId' = runId + 1
    /\ IF startProgramStatus(u) # Good
       THEN UNCHANGED <<unitState, tcState, runs, results, activeProgram, timers>>
       ELSE runProgram(u, runId + 1, tpl)
    /\ UNCHANGED <<deviceState, itemState, opMode, health, coverState>>

\* a startProgram that sets the machinery-item-state itself
startProgram_SetsExecuting(u, tpl, limit) ==
    IF startProgramStatus(u) # Good
    THEN UNCHANGED prog
    ELSE /\ runId < limit
         /\ runId' = runId + 1
         /\ runProgram(u, runId + 1, tpl)
         /\ itemState' = "Executing"
         /\ UNCHANGED <<deviceState, opMode, health, coverState>>

\* limit: the bound on the successful calls a specification explores
startProgram(u, tpl, limit) ==
    IF startProgramStatus(u) # Good
    THEN UNCHANGED prog
    ELSE /\ runId < limit
         /\ runId' = runId + 1
         /\ runProgram(u, runId + 1, tpl)
         /\ UNCHANGED <<deviceState, itemState, opMode, health, coverState>>

\* the call with its input arguments: what a caller can send is well-formed
\* or has malformed entries; the loop over inputArguments that follows the
\* state guard sets validationFailed to false for every argument
ArgumentShapes == {"wellformed", "malformed"}

validationFailed(inputArguments) == FALSE

startProgramWithStatus(u, inputArguments) ==
    IF startProgramStatus(u) # Good THEN startProgramStatus(u)
    ELSE IF validationFailed(inputArguments) THEN BadInvalidArgument
    ELSE Good

\* runProgram reads the entries of the properties inside a try and catch, so
\* the run of a call with malformed entries is the run of any call
startProgramWith(u, tpl, inputArguments, limit) ==
    IF startProgramWithStatus(u, inputArguments) = BadInvalidArgument
    THEN UNCHANGED prog
    ELSE startProgram(u, tpl, limit)

(* ---- the run loop after each sleep ------------------------------------ *)
\* a finalization that writes the first Result, not the run's own
Finalize_FirstResult(r, u, rest) ==
    /\ tcState' = Stopped
    /\ results' = [results EXCEPT ![1] =
           [@ EXCEPT !.stopped = Stamp(runs[r].elapsed), !.variables = @ + 1]]
    /\ activeProgram' = [activeProgram EXCEPT ![u] =
           [@ EXCEPT !.currentStepName = "Finalizing",
                     !.currentStepNumber = 2,
                     !.estimatedStepRuntime = finishTime,
                     !.currentRuntime = 0 + runTime,
                     !.currentStepRuntime = 0]]
    /\ runs' = [runs EXCEPT ![r] = [@ EXCEPT !.pc = "final", !.t = 0, !.elapsed = 0]]
    /\ timers' = Schedule(rest, TickTimer(r, u))
    /\ UNCHANGED unitState

\* after the main loop: controller to Stopped, the Result's stop timestamp
\* and readings, the Finalizing step and its first progress update
Finalize(r, u, rest) ==
    /\ tcState' = Stopped
    /\ results' = [results EXCEPT ![r] =
           [@ EXCEPT !.stopped = Stamp(runs[r].elapsed), !.variables = @ + 1]]
    /\ activeProgram' = [activeProgram EXCEPT ![u] =
           [@ EXCEPT !.currentStepName = "Finalizing",
                     !.currentStepNumber = 2,
                     !.estimatedStepRuntime = finishTime,
                     !.currentRuntime = 0 + runTime,
                     !.currentStepRuntime = 0]]
    /\ runs' = [runs EXCEPT ![r] = [@ EXCEPT !.pc = "final", !.t = 0, !.elapsed = 0]]
    /\ timers' = Schedule(rest, TickTimer(r, u))
    /\ UNCHANGED unitState

\* the check after the sleep of the main loop
Cancelled(currentState) == currentState # "" /\ ~Includes(currentState, Running)

\* a main loop that only a stop or an abort ends
MainTick_UntilCancelled(r, u, rest) ==
    IF Cancelled(unitState[u])
    THEN Finalize(r, u, rest)
    ELSE /\ activeProgram' = [activeProgram EXCEPT ![u] =
                [@ EXCEPT !.currentRuntime = runs[r].t,
                          !.currentStepRuntime = runs[r].t]]
         /\ runs' = [runs EXCEPT ![r] =
                [@ EXCEPT !.t = IF @ + delta <= runTime THEN @ + delta ELSE @]]
         /\ timers' = Schedule(rest, TickTimer(r, u))
         /\ UNCHANGED <<unitState, tcState, results>>

MainTick(r, u, rest) ==
    IF Cancelled(unitState[u])
    THEN Finalize(r, u, rest)
    ELSE IF runs[r].t + delta <= runTime
         THEN /\ activeProgram' = [activeProgram EXCEPT ![u] =
                     [@ EXCEPT !.currentRuntime = runs[r].t + delta,
                               !.currentStepRuntime = runs[r].t + delta]]
              /\ runs' = [runs EXCEPT ![r] = [@ EXCEPT !.t = @ + delta]]
              /\ timers' = Schedule(rest, TickTimer(r, u))
              /\ UNCHANGED <<unitState, tcState, results>>
         ELSE Finalize(r, u, rest)

FinalTick(r, u, rest) ==
    IF runs[r].t + delta <= finishTime
    THEN /\ activeProgram' = [activeProgram EXCEPT ![u] =
                [@ EXCEPT !.currentRuntime = runs[r].t + delta + runTime,
                          !.currentStepRuntime = runs[r].t + delta]]
         /\ runs' = [runs EXCEPT ![r] = [@ EXCEPT !.t = @ + delta]]
         /\ timers' = Schedule(rest, TickTimer(r, u))
         /\ UNCHANGED <<unitState, tcState, results>>
    ELSE /\ unitState' = [unitState EXCEPT ![u] = Stopped]
         /\ runs' = [runs EXCEPT ![r] = DoneRun(u)]
         /\ timers' = Schedule(rest, DebounceTimer(u))
         /\ UNCHANGED <<tcState, results, activeProgram>>

RunLoopTick(i) ==
    /\ CanFire(i)
    /\ timers[i].kind = "tick"
    /\ LET r == timers[i].run
           u == timers[i].unit
           rest == RemoveAt(timers, i)
       IN IF runs[r].pc = "main" THEN MainTick(r, u, rest) ELSE FinalTick(r, u, rest)
    /\ UNCHANGED <<deviceState, itemState, opMode, health, coverState, runId>>

(* ---- stopProgram, abortProgram ---------------------------------------- *)
\* a guard that also accepts a unit already in a dwell
CanStop_AlsoDwelling(currentState) ==
    /\ currentState # ""
    /\ \/ Includes(currentState, Running)
       \/ Includes(currentState, Stopping)
       \/ Includes(currentState, Aborting)

\* the guard of stopOrAbortProgram
CanStop(currentState) == currentState # "" /\ Includes(currentState, Running)

stopOrAbortStatus(u) == IF CanStop(unitState[u]) THEN Good ELSE BadInvalidState

stopOrAbortProgram(u, op, transitiveState, finalState) ==
    IF stopOrAbortStatus(u) # Good
    THEN UNCHANGED prog
    ELSE /\ unitState' = [unitState EXCEPT ![u] = transitiveState]
         /\ timers' = Schedule(Schedule(timers, DebounceTimer(u)),
                sleepMilliSeconds("dwell", stopGrace, u, 0, finalState, op))
         /\ UNCHANGED <<tcState, deviceState, itemState, opMode, health, coverState, runId,
                        runs, results, activeProgram>>

stopProgram(u) == stopOrAbortProgram(u, "stopProgram", Stopping, Stopped)

abortProgram(u) == stopOrAbortProgram(u, "abortProgram", Aborting, Aborted)

\* the callback of a dwell timer: an unconditional setState(finalState)
DwellElapsed(i) ==
    /\ CanFire(i)
    /\ timers[i].kind = "dwell"
    /\ unitState' = [unitState EXCEPT ![timers[i].unit] = timers[i].to]
    /\ timers' = Schedule(RemoveAt(timers, i), DebounceTimer(timers[i].unit))
    /\ UNCHANGED <<tcState, deviceState, itemState, opMode, health, coverState, runId, runs,
                   results, activeProgram>>

(* ---- temperature controller and cover ---------------------------------- *)
\* what start, startWithTargetValue and stop of the controller return
ControllerCallStatus == Good

onStartTemperatureController ==
    /\ tcState' = Running
    /\ UNCHANGED <<unitState, coverState, deviceState, itemState, opMode, health,
                   runId, runs, results, activeProgram, timers>>

ControllerTimers == {i \in 1..Len(timers) : timers[i].kind = "tcdwell"}

\* stop of the controller; the model explores it while fewer than
\* MaxControllerTimers of its dwell timers are pending
onStopTemperatureController ==
    /\ Cardinality(ControllerTimers) < MaxControllerTimers
    /\ tcState' = Stopping
    /\ timers' = Schedule(timers, sleepMilliSeconds("tcdwell", stopGrace, 0, 0, Stopped,
                                                    "onStopTemperatureController"))
    /\ UNCHANGED <<unitState, coverState, deviceState, itemState, opMode, health,
                   runId, runs, results, activeProgram>>

\* the callback of the controller's dwell timer
ControllerDwellElapsed(i) ==
    /\ CanFire(i)
    /\ timers[i].kind = "tcdwell"
    /\ tcState' = timers[i].to
    /\ timers' = RemoveAt(timers, i)
    /\ UNCHANGED <<unitState, coverState, deviceState, itemState, opMode, health,
                   runId, runs, results, activeProgram>>

\* a guard that lets every request through
CanTransite_Always(state, fromStateName) == TRUE

\* the guard of transite: no current state, or one that includes the source
CanTransite(state, fromStateName) == state = "" \/ Includes(state, fromStateName)

transiteStatus(fromStateName) ==
    IF CanTransite(coverState, fromStateName) THEN Good ELSE BadInvalidState

transite(fromStateName, toStateName) ==
    /\ coverState' = IF transiteStatus(fromStateName) = Good
                     THEN toStateName ELSE coverState
    /\ UNCHANGED <<unitState, tcState, deviceState, itemState, opMode, health, runId,
                   runs, results, activeProgram, timers>>

\* the methods open, close, lock, unlock of the cover as bound
CoverMethods ==
    [open |-> <<"Closed", "Opened">>, close |-> <<"Opened", "Closed">>,
     lock |-> <<"Closed", "Locked">>, unlock |-> <<"Locked", "Closed">>]

(* ---- device supervisor: health, debounce, power cycle ----------------- *)
\* the forEach of onDeviceHealthChanged over the units from unit u on: each
\* Running unit is set to Aborting (its change notification schedules the
\* debounced recomputation) and gets the timer that sets Aborted
RECURSIVE AbortCascade(_, _)
AbortCascade(u, tm) ==
    IF u > NumUnits THEN tm
    ELSE IF Includes(state2str(unitState[u]), Running)
         THEN AbortCascade(u + 1, Schedule(Schedule(tm, DebounceTimer(u)),
                  sleepMilliSeconds("dwell", healthGrace, u, 0, Aborted,
                                    "onDeviceHealthChanged")))
         ELSE AbortCascade(u + 1, tm)

\* a cascade that sets the final state at once
CascadeStates_NoDwell ==
    [u \in Units |-> IF Includes(state2str(unitState[u]), Running)
                     THEN Aborted ELSE unitState[u]]

\* a cascade that aborts every unit
CascadeStates_EveryUnit == [u \in Units |-> Aborting]

CascadeStates ==
    [u \in Units |-> IF Includes(state2str(unitState[u]), Running)
                     THEN Aborting ELSE unitState[u]]

onDeviceHealthChanged(value) ==
    /\ health' = value
    /\ IF value = "FAILURE"
       THEN /\ itemState' = "OutOfService"
            /\ unitState' = CascadeStates
            /\ timers' = AbortCascade(1, timers)
       ELSE UNCHANGED <<itemState, unitState, timers>>
    /\ UNCHANGED <<tcState, coverState, deviceState, opMode, runId, runs, results, activeProgram>>

\* the callback onFunctionalUnitStateChanged schedules
DebounceElapsed(i) ==
    /\ CanFire(i)
    /\ timers[i].kind = "debounce"
    /\ itemState' = adjustMachineryItemState(unitState)
    /\ timers' = RemoveAt(timers, i)
    /\ UNCHANGED <<unitState, tcState, deviceState, opMode, health, coverState, runId, runs,
                   results, activeProgram>>

\* onDeviceStateChanged: machinery-item-state after the device state was
\* set to `state`, recomputed for every state but Operate
onDeviceStateChanged(state) ==
    IF state # "" /\ ~Includes(state, "Operate")
    THEN adjustMachineryItemState(unitState)
    ELSE itemState

enterDeviceOperating ==
    IF Includes(state2str(deviceState), "Operate")
    THEN UNCHANGED <<deviceState, itemState, opMode>>
    ELSE /\ deviceState' = "Operate"
         /\ itemState' = onDeviceStateChanged("Operate")
         /\ opMode' = "Processing"

enterDeviceSleep ==
    /\ deviceState' = "Sleep"
    /\ itemState' = onDeviceStateChanged("Sleep")
    /\ UNCHANGED opMode

enterDeviceInitialzation(tm) ==
    /\ deviceState' = "Initialization"
    /\ itemState' = onDeviceStateChanged("Initialization")
    /\ opMode' = "None"
    /\ timers' = Schedule(tm, sleepMilliSeconds("init", initializationTime, 0, 0, "",
                                                "enterDeviceInitialzation"))

enterDeviceShutdown ==
    /\ deviceState' = "Shutdown"
    /\ itemState' = onDeviceStateChanged("Shutdown")
    /\ opMode' = "None"
    /\ timers' = Schedule(timers, sleepMilliSeconds("shutdown", shutdownTime, 0, 0, "",
                                                    "enterDeviceShutdown"))

PowerTimers == {i \in 1..Len(timers) : timers[i].kind \in {"init", "shutdown"}}

\* what the methods of the device state machine and of the operation mode
\* return, whatever the state
DeviceCallStatus == Good

\* the methods gotoOperate and gotoSleep of the device state machine
onGotoOperating ==
    /\ enterDeviceOperating
    /\ UNCHANGED <<unitState, tcState, health, coverState, runId, runs, results, activeProgram,
                   timers>>

onGotoSleep ==
    /\ enterDeviceSleep
    /\ UNCHANGED <<unitState, tcState, health, coverState, runId, runs, results, activeProgram,
                   timers>>

\* a gotoShutdown that stops the temperature controller
onGotoShutdown_StopsController ==
    /\ Cardinality(PowerTimers) < MaxPowerTimers
    /\ enterDeviceShutdown
    /\ tcState' = Stopped
    /\ UNCHANGED <<unitState, health, coverState, runId, runs, results, activeProgram>>

\* gotoShutdown; the model explores it while fewer than MaxPowerTimers
\* initialization and shutdown timers are pending
onGotoShutdown ==
    /\ Cardinality(PowerTimers) < MaxPowerTimers
    /\ enterDeviceShutdown
    /\ UNCHANGED <<unitState, tcState, health, coverState, runId, runs, results, activeProgram>>

\* gotoMaintenance, gotoProcessing, gotoSetup
onGotoOperationMode(operationMode) ==
    /\ opMode' = operationMode
    /\ UNCHANGED <<unitState, tcState, deviceState, itemState, health, coverState, runId, runs,
                   results, activeProgram, timers>>

\* the callback of the timer enterDeviceShutdown sets
ShutdownElapsed(i) ==
    /\ CanFire(i)
    /\ timers[i].kind = "shutdown"
    /\ enterDeviceInitialzation(RemoveAt(timers, i))
    /\ UNCHANGED <<unitState, tcState, health, coverState, runId, runs, results, activeProgram>>

\* the callback of the timer enterDeviceInitialzation sets
InitializationElapsed(i) ==
    /\ CanFire(i)
    /\ timers[i].kind = "init"
    /\ enterDeviceOperating
    /\ timers' = RemoveAt(timers, i)
    /\ UNCHANGED <<unitState, tcState, health, coverState, runId, runs, results, activeProgram>>

(* ---- the supervisor's events ------------------------------------------- *)
\* a value_changed notification: the variable that changed and its new text
Changed(variable, unit, state) == [variable |-> variable, unit |-> unit, state |-> state]

\* an event that reports every change, whatever the option says
raiseEvent_Always(message) == <<message>>

\* raiseEvent: the events it raises, none unless options.raiseEvents
raiseEvent(message) == IF ~raiseEvents THEN <<>> ELSE <<message>>

\* the head of onDeviceStateChanged, onMachineryItemStateChanged,
\* onMachineryOperationModeChanged and onFunctionalUnitStateChanged (return on
\* an empty state text, else raiseEvent) and of onDeviceHealthChanged
\* (raiseEvent for every value)
OnChanged(change) ==
    IF change.variable = "deviceHealth"
    THEN raiseEvent(change)
    ELSE IF change.state = "" THEN <<>> ELSE raiseEvent(change)

RECURSIVE RaisedFor(_)
RaisedFor(changes) ==
    IF changes = <<>> THEN <<>>
    ELSE OnChanged(Head(changes)) \o RaisedFor(Tail(changes))

\* the notifications of the setState calls of each handler, in call order
UnitChanges(u, state) == <<Changed("functionalUnitState", u, state)>>

RECURSIVE CascadeChanges(_)
CascadeChanges(u) ==
    IF u > NumUnits THEN <<>>
    ELSE (IF Includes(state2str(unitState[u]), Running)
          THEN UnitChanges(u, Aborting) ELSE <<>>) \o CascadeChanges(u + 1)

HealthChanges(value) ==
    <<Changed("deviceHealth", 0, value)>>
    \o (IF value = "FAILURE"
        THEN <<Changed("machineryItemState", 0, "OutOfService")>> \o CascadeChanges(1)
        ELSE <<>>)

\* setState on the device state: its notification and, for every state but
\* Operate, the one of the setState of adjustMachineryItemState
DeviceStateChanges(state) ==
    <<Changed("deviceState", 0, state)>>
    \o (IF state # "" /\ ~Includes(state, "Operate")
        THEN <<Changed("machineryItemState", 0, adjustMachineryItemState(unitState))>>
        ELSE <<>>)

OperatingChanges ==
    IF Includes(state2str(deviceState), "Operate") THEN <<>>
    ELSE DeviceStateChanges("Operate")
         \o <<Changed("machineryOperationMode", 0, "Processing")>>

RunLoopChanges(i) ==
    IF runs[timers[i].run].pc = "final" /\ runs[timers[i].run].t + delta > finishTime
    THEN UnitChanges(timers[i].unit, Stopped)
    ELSE <<>>

(* ---- time ------------------------------------------------------------- *)
Advance ==
    /\ timers # <<>>
    /\ \A i \in 1..Len(timers) : timers[i].rem > 0
    /\ timers' = [i \in 1..Len(timers) |-> [timers[i] EXCEPT !.rem = @ - MinRem]]
    /\ runs' = [r \in 1..Len(runs) |->
                   IF runs[r].pc = "main"
                   THEN [runs[r] EXCEPT !.elapsed = @ + MinRem] ELSE runs[r]]
    /\ UNCHANGED <<unitState, tcState, deviceState, itemState, opMode, health, coverState,
                   runId, results, activeProgram>>

(* ---- the steps of the program ----------------------------------------- *)
StartProgramCall(limit) ==
    \E u \in Units, tpl \in ProgramTemplates : startProgram(u, tpl, limit)
StopProgramCall == \E u \in Units : stopProgram(u)
AbortProgramCall == \E u \in Units : abortProgram(u)
HealthReport == \E value \in EnumDeviceHealth : onDeviceHealthChanged(value)
RunLoopStep == \E i \in 1..Len(timers) : RunLoopTick(i)
DwellStep == \E i \in 1..Len(timers) : DwellElapsed(i)
DebounceStep == \E i \in 1..Len(timers) : DebounceElapsed(i)
InitializationStep == \E i \in 1..Len(timers) : InitializationElapsed(i)
ShutdownStep == \E i \in 1..Len(timers) : ShutdownElapsed(i)
GotoOperationModeCall ==
    \E operationMode \in {"Maintenance", "Processing", "Setup"} :
        onGotoOperationMode(operationMode)

(* ---- Spec: the program, no history ------------------------------------ *)
Next ==
    \/ StartProgramCall(MaxRuns) /\ UNCHANGED <<hist, space, emission, aliasing, machines>>
    \/ StopProgramCall /\ UNCHANGED <<hist, space, emission, aliasing, machines>>
    \/ AbortProgramCall /\ UNCHANGED <<hist, space, emission, aliasing, machines>>
    \/ HealthReport /\ UNCHANGED <<hist, space, emission, aliasing, machines>>
    \/ onGotoOperating /\ UNCHANGED <<hist, space, emission, aliasing, machines>>
    \/ onGotoSleep /\ UNCHANGED <<hist, space, emission, aliasing, machines>>
    \/ RunLoopStep /\ UNCHANGED <<hist, space, emission, aliasing, machines>>
    \/ DwellStep /\ UNCHANGED <<hist, space, emission, aliasing, machines>>
    \/ DebounceStep /\ UNCHANGED <<hist, space, emission, aliasing, machines>>
    \/ InitializationStep /\ UNCHANGED <<hist, space, emission, aliasing, machines>>
    \/ Advance /\ UNCHANGED <<hist, space, emission, aliasing, machines>>

Spec == Init /\ [][Next]_vars

(* ---- SpecTermination: the program under a running event loop ---------- *)
\* the event loop runs the callbacks of the timers that are due, and time
\* passes when none is due
TimerStep ==
    /\ Advance \/ RunLoopStep \/ DwellStep \/ DebounceStep \/ InitializationStep
    /\ UNCHANGED <<hist, space, emission, aliasing, machines>>

NextTermination ==
    \/ StartProgramCall(MaxRuns) /\ UNCHANGED <<hist, space, emission, aliasing, machines>>
    \/ StopProgramCall /\ UNCHANGED <<hist, space, emission, aliasing, machines>>
    \/ AbortProgramCall /\ UNCHANGED <<hist, space, emission, aliasing, machines>>
    \/ HealthReport /\ UNCHANGED <<hist, space, emission, aliasing, machines>>
    \/ TimerStep

SpecTermination == Init /\ [][NextTermination]_vars /\ WF_vars(TimerStep)

(* ---- SpecDevice: the device supervisor with the requests to the device - *)
\* cycle follows a gotoShutdown accepted in Operate while no request follows
\* it: "down" until a shutdown timer fires, "init" until an initialization
\* timer fires, then "up"
RecordRequest(request) ==
    /\ cycle' = IF request = "gotoShutdown" /\ deviceState = "Operate"
                THEN "down" ELSE "none"
    /\ UNCHANGED <<last, watch, clean, left, early, space, emission, aliasing, machines>>

RecordElapsed(kind) ==
    /\ cycle' = IF kind = "shutdown" /\ cycle = "down" THEN "init"
                ELSE IF kind = "init" /\ cycle = "init" THEN "up"
                ELSE cycle
    /\ UNCHANGED <<last, watch, clean, left, early, space, emission, aliasing, machines>>

NextDevice ==
    \/ onGotoOperating /\ RecordRequest("gotoOperate")
    \/ onGotoSleep /\ RecordRequest("gotoSleep")
    \/ onGotoShutdown /\ RecordRequest("gotoShutdown")
    \/ GotoOperationModeCall /\ RecordRequest("gotoOperationMode")
    \/ HealthReport /\ UNCHANGED <<hist, space, emission, aliasing, machines>>
    \/ InitializationStep /\ RecordElapsed("init")
    \/ ShutdownStep /\ RecordElapsed("shutdown")
    \/ Advance /\ UNCHANGED <<hist, space, emission, aliasing, machines>>

SpecDevice == Init /\ [][NextDevice]_vars

(* ---- SpecCalls: the program with the results of its method calls ------ *)
\* `last` holds what a method call returned until the server has sent it to
\* the caller (Respond), which it does before it handles anything else
Returned(op, u, status, out) == [op |-> op, unit |-> u, status |-> status, out |-> out]

LogStart(u) ==
    /\ last = NoCall
    /\ last' = Returned("startProgram", u, startProgramStatus(u),
                        IF startProgramStatus(u) = Good THEN runId + 1 ELSE 0)
    /\ UNCHANGED <<watch, clean, left, early, cycle, space, emission, aliasing, machines>>

LogStopOrAbort(op, u) ==
    /\ last = NoCall
    /\ last' = Returned(op, u, stopOrAbortStatus(u), 0)
    /\ UNCHANGED <<watch, clean, left, early, cycle, space, emission, aliasing, machines>>

LogNoCall ==
    /\ last = NoCall
    /\ UNCHANGED <<hist, space, emission, aliasing, machines>>

Respond ==
    /\ last # NoCall
    /\ last' = NoCall
    /\ UNCHANGED <<prog, watch, clean, left, early, cycle, space, emission, aliasing, machines>>

NextCalls ==
    \/ \E u \in Units, tpl \in ProgramTemplates :
           startProgram(u, tpl, MaxRuns) /\ LogStart(u)
    \/ \E u \in Units : stopProgram(u) /\ LogStopOrAbort("stopProgram", u)
    \/ \E u \in Units : abortProgram(u) /\ LogStopOrAbort("abortProgram", u)
    \/ Respond
    \/ HealthReport /\ LogNoCall
    \/ RunLoopStep /\ LogNoCall
    \/ DwellStep /\ LogNoCall
    \/ DebounceStep /\ LogNoCall
    \/ InitializationStep /\ LogNoCall
    \/ Advance /\ LogNoCall

SpecCalls == Init /\ [][NextCalls]_vars

(* ---- SpecFunctions: the cover and the temperature controller ---------- *)
\* `last` holds the request to the cover of the last step and its result
CoverCall(method) ==
    /\ transite(CoverMethods[method][1], CoverMethods[method][2])
    /\ last' = Returned(method, 0, transiteStatus(CoverMethods[method][1]), 0)
    /\ UNCHANGED <<watch, clean, left, early, cycle, space, emission, aliasing, machines>>

ControllerDwellStep == \E i \in 1..Len(timers) : ControllerDwellElapsed(i)

ClearCall ==
    /\ last' = NoCall
    /\ UNCHANGED <<watch, clean, left, early, cycle, space, emission, aliasing, machines>>

NextFunctions ==
    \/ \E method \in DOMAIN CoverMethods : CoverCall(method)
    \/ onStartTemperatureController /\ ClearCall
    \/ onStopTemperatureController /\ ClearCall
    \/ ControllerDwellStep /\ ClearCall
    \/ HealthReport /\ ClearCall
    \/ InitializationStep /\ ClearCall
    \/ Advance /\ ClearCall

SpecFunctions == Init /\ [][NextFunctions]_vars

(* ---- SpecNotifier: the notifier tree builder on an address space ------- *)
\* the address space before the builder's first call
InitNotifier ==
    /\ InitProgram
    /\ functions \in FunctionTrees
    /\ references = EmptyBag
    /\ eventNotifier = {}
    /\ builds = 0
    /\ unchanged = FALSE
    /\ raiseEvents = TRUE
    /\ observed = <<>>
    /\ events = <<>>
    /\ ancestry = <<>>
    /\ aliasName = NoAlias
    /\ helpers = <<>>

NextNotifier ==
    \/ buildLADSEventNotifierTree /\ UNCHANGED <<prog, hist, emission, aliasing, machines>>
    \/ \E name \in SeqToSet(FunctionNames) :
           AddFunction(name) /\ UNCHANGED <<prog, hist, emission, aliasing, machines>>

SpecNotifier == InitNotifier /\ [][NextNotifier]_vars

(* ---- SpecArguments: startProgram with its input arguments ------------- *)
\* `last` holds the startProgram call of the last step with the shape of its
\* input arguments and what it returned
ArgumentsCall(u, tpl, inputArguments) ==
    /\ startProgramWith(u, tpl, inputArguments, MaxRuns)
    /\ last' = [op |-> "startProgram", unit |-> u,
                status |-> startProgramWithStatus(u, inputArguments),
                out |-> IF startProgramWithStatus(u, inputArguments) = Good
                        THEN runId + 1 ELSE 0,
                inputArguments |-> inputArguments]
    /\ UNCHANGED <<watch, clean, left, early, cycle, space, emission, aliasing, machines>>

NextArguments ==
    \/ \E u \in Units, tpl \in ProgramTemplates, inputArguments \in ArgumentShapes :
           ArgumentsCall(u, tpl, inputArguments)
    \/ StopProgramCall /\ ClearCall
    \/ AbortProgramCall /\ ClearCall
    \/ RunLoopStep /\ ClearCall
    \/ DwellStep /\ ClearCall
    \/ DebounceStep /\ ClearCall
    \/ InitializationStep /\ ClearCall
    \/ Advance /\ ClearCall

SpecArguments == Init /\ [][NextArguments]_vars

(* ---- SpecTemplates: startProgram with any template identifier ---------- *)
\* inputArguments[0] of a call: the name of a template of the unit's set or
\* a name that no template of the set has
TemplateIds == ProgramTemplates \cup {"T9"}

TemplateCall(u, tpl) ==
    /\ startProgram(u, tpl, MaxRuns)
    /\ last' = [op |-> "startProgram", unit |-> u,
                status |-> startProgramStatus(u),
                out |-> IF startProgramStatus(u) = Good THEN runId + 1 ELSE 0,
                template |-> tpl]
    /\ UNCHANGED <<watch, clean, left, early, cycle, space, emission, aliasing, machines>>

NextTemplates ==
    \/ \E u \in Units, tpl \in TemplateIds : TemplateCall(u, tpl)
    \/ StopProgramCall /\ ClearCall
    \/ AbortProgramCall /\ ClearCall
    \/ RunLoopStep /\ ClearCall
    \/ DwellStep /\ ClearCall
    \/ DebounceStep /\ ClearCall
    \/ InitializationStep /\ ClearCall
    \/ Advance /\ ClearCall

SpecTemplates == Init /\ [][NextTemplates]_vars

(* ---- SpecMachines: a machine with a parent, states in any order -------- *)
\* helper 1 is a machine on the operation modes, helper 2 a machine on the
\* machinery item states constructed with helper 1 as its parent
InitMachines ==
    /\ InitProgram
    /\ functions = ServerFunctions
    /\ LET st == NotifierTree(EmptyBag, {}, ServerFunctions, "merged")
       IN /\ references = st.references
          /\ eventNotifier = st.eventNotifier
    /\ builds = 1
    /\ unchanged = TRUE
    /\ raiseEvents = TRUE
    /\ observed = <<>>
    /\ events = <<>>
    /\ ancestry = <<>>
    /\ aliasName = NoAlias
    /\ \E parentStates \in StateOrders(MachineryOperationMode),
          states \in StateOrders(MachineryItemState) :
          helpers = <<LADSFiniteStateMachineHelper(parentStates, 0),
                      LADSFiniteStateMachineHelper(states, 1)>>

NextMachines ==
    \E h \in 1..Len(helpers), idWriter \in CurrentStateIdWriters :
        \E toState \in SeqToSet(helpers[h].states) :
            /\ setState(h, toState, idWriter)
            /\ UNCHANGED <<prog, hist, space, emission, aliasing>>

SpecMachines == InitMachines /\ [][NextMachines]_vars

(* ---- SpecPower: program, cover and health beside the power cycle ------- *)
\* `last` holds the startProgram call of the last step and what it returned
PowerStartCall(u, tpl) ==
    /\ startProgram(u, tpl, MaxPowerRuns)
    /\ last' = Returned("startProgram", u, startProgramStatus(u),
                        IF startProgramStatus(u) = Good THEN runId + 1 ELSE 0)
    /\ UNCHANGED <<watch, clean, left, early, cycle, space, emission, aliasing, machines>>

\* the unit leaves Running by the cascade of a FAILURE report or at the end
\* of its run; the device leaves Sleep by gotoShutdown
NextPower ==
    \/ \E u \in Units, tpl \in ProgramTemplates : PowerStartCall(u, tpl)
    \/ HealthReport /\ ClearCall
    \/ (\E method \in DOMAIN CoverMethods :
           transite(CoverMethods[method][1], CoverMethods[method][2])) /\ ClearCall
    \/ onGotoSleep /\ ClearCall
    \/ onGotoShutdown /\ ClearCall
    \/ ShutdownStep /\ ClearCall
    \/ InitializationStep /\ ClearCall
    \/ RunLoopStep /\ ClearCall
    \/ DwellStep /\ ClearCall
    \/ DebounceStep /\ ClearCall
    \/ Advance /\ ClearCall

SpecPower == Init /\ [][NextPower]_vars

(* ---- SpecEvents: the supervisor with either value of raiseEvents ------- *)
InitEvents ==
    /\ InitProgram
    /\ functions = ServerFunctions
    /\ LET st == NotifierTree(EmptyBag, {}, ServerFunctions, "merged")
       IN /\ references = st.references
          /\ eventNotifier = st.eventNotifier
    /\ builds = 1
    /\ unchanged = TRUE
    /\ raiseEvents \in BOOLEAN
    /\ observed = <<>>
    /\ events = <<>>
    /\ ancestry = <<>>
    /\ aliasName = NoAlias
    /\ helpers = <<>>

\* the notifications of a step are delivered to the supervisor's handlers
Notify(changes) ==
    /\ observed' = changes
    /\ events' = RaisedFor(changes)
    /\ UNCHANGED <<raiseEvents, hist, space, aliasing, machines>>

NextEvents ==
    \/ \E u \in Units, tpl \in ProgramTemplates :
           /\ startProgram(u, tpl, MaxEventRuns)
           /\ Notify(IF startProgramStatus(u) = Good
                     THEN UnitChanges(u, Running) ELSE <<>>)
    \/ \E u \in Units :
           /\ stopProgram(u)
           /\ Notify(IF stopOrAbortStatus(u) = Good
                     THEN UnitChanges(u, Stopping) ELSE <<>>)
    \/ \E u \in Units :
           /\ abortProgram(u)
           /\ Notify(IF stopOrAbortStatus(u) = Good
                     THEN UnitChanges(u, Aborting) ELSE <<>>)
    \/ \E value \in EnumDeviceHealth :
           onDeviceHealthChanged(value) /\ Notify(HealthChanges(value))
    \/ onGotoOperating /\ Notify(OperatingChanges)
    \/ onGotoSleep /\ Notify(DeviceStateChanges("Sleep"))
    \/ \E i \in 1..Len(timers) : RunLoopTick(i) /\ Notify(RunLoopChanges(i))
    \/ \E i \in 1..Len(timers) :
           DwellElapsed(i) /\ Notify(UnitChanges(timers[i].unit, timers[i].to))
    \/ \E i \in 1..Len(timers) :
           /\ DebounceElapsed(i)
           /\ Notify(<<Changed("machineryItemState", 0,
                               adjustMachineryItemState(unitState))>>)
    \/ InitializationStep /\ Notify(OperatingChanges)
    \/ Advance /\ Notify(<<>>)

SpecEvents == InitEvents /\ [][NextEvents]_vars

(* ---- SpecOwners: program, cover, controller and supervisor together ---- *)
OrchestrationStep ==
    \/ StartProgramCall(MaxOwnerRuns)
    \/ StopProgramCall
    \/ AbortProgramCall
    \/ RunLoopStep
    \/ DwellStep

FunctionStep ==
    \/ \E method \in DOMAIN CoverMethods :
           transite(CoverMethods[method][1], CoverMethods[method][2])
    \/ onStartTemperatureController
    \/ onStopTemperatureController
    \/ ControllerDwellStep

\* the supervisor's reactions that follow the changes the program makes:
\* the debounced recomputation and the end of the initialization
SupervisorStep ==
    \/ DebounceStep
    \/ InitializationStep

NextOwners ==
    \/ OrchestrationStep /\ UNCHANGED <<hist, space, emission, aliasing, machines>>
    \/ FunctionStep /\ UNCHANGED <<hist, space, emission, aliasing, machines>>
    \/ SupervisorStep /\ UNCHANGED <<hist, space, emission, aliasing, machines>>
    \/ Advance /\ UNCHANGED <<hist, space, emission, aliasing, machines>>

SpecOwners == Init /\ [][NextOwners]_vars

(* ---- SpecAlias: getAliasName on the variables of an address space ------ *)
InitAlias ==
    /\ InitProgram
    /\ functions = ServerFunctions
    /\ LET st == NotifierTree(EmptyBag, {}, ServerFunctions, "merged")
       IN /\ references = st.references
          /\ eventNotifier = st.eventNotifier
    /\ builds = 1
    /\ unchanged = TRUE
    /\ raiseEvents = TRUE
    /\ observed = <<>>
    /\ events = <<>>
    /\ ancestry \in Ancestries
    /\ aliasName = NoAlias
    /\ helpers = <<>>

NextAlias == getAliasNameCall /\ UNCHANGED <<prog, hist, space, emission, machines>>

SpecAlias == InitAlias /\ [][NextAlias]_vars

(* ---- SpecRuns: the program with the history of its runs --------------- *)
\* main-phase runs that have a change of their unit away from Running to
\* observe: the change happens in this step, or happened and the run has
\* not reached its check since
LeftNext ==
    {r \in 1..Len(runs) :
        /\ runs'[r].pc = "main"
        /\ \/ r \in left /\ runs'[r].t = runs[r].t
           \/ /\ Includes(unitState[runs[r].unit], Running)
              /\ ~Includes(unitState'[runs[r].unit], Running)}

\* runs in their second loop that came there by the break of the first
EarlyNext ==
    {r \in 1..Len(runs) :
        /\ runs'[r].pc = "final"
        /\ \/ r \in early
           \/ runs[r].pc = "main" /\ Cancelled(unitState[runs[r].unit])}

Record(cleanNext, watchNext) ==
    /\ clean' = {r \in cleanNext : runs'[r].pc # "done"}
    /\ watch' = watchNext
    /\ left' = LeftNext
    /\ early' = EarlyNext
    /\ UNCHANGED <<last, cycle, space, emission, aliasing, machines>>

RecordStart(u) ==
    IF startProgramStatus(u) = Good
    THEN Record(IF unitState[u] = Stopped THEN clean \cup {runId + 1} ELSE clean,
                [watch EXCEPT ![u] = "none"])
    ELSE Record(clean, watch)

RecordStopOrAbort(op, u) ==
    IF stopOrAbortStatus(u) = Good
    THEN Record(clean \ LiveRuns(u),
                [watch EXCEPT ![u] =
                    IF op = "stopProgram" THEN "stop"
                    ELSE IF \E r \in LiveRuns(u) : runs[r].pc = "main"
                         THEN "abortMain" ELSE "abort"])
    ELSE Record(clean, watch)

RecordHealth(value) == Record(IF value = "FAILURE" THEN {} ELSE clean, watch)

NextRuns ==
    \/ \E u \in Units, tpl \in ProgramTemplates :
           startProgram(u, tpl, MaxOverlappingRuns) /\ RecordStart(u)
    \/ \E u \in Units : stopProgram(u) /\ RecordStopOrAbort("stopProgram", u)
    \/ \E u \in Units : abortProgram(u) /\ RecordStopOrAbort("abortProgram", u)
    \/ \E value \in EnumDeviceHealth : onDeviceHealthChanged(value) /\ RecordHealth(value)
    \/ RunLoopStep /\ Record(clean, watch)
    \/ DwellStep /\ Record(clean, watch)
    \/ DebounceStep /\ Record(clean, watch)
    \/ InitializationStep /\ Record(clean, watch)
    \/ Advance /\ Record(clean, watch)

SpecRuns == Init /\ [][NextRuns]_vars

(* ======================================================================= *)
(* Properties                                                              *)
(* ======================================================================= *)

\* C1: for each functional unit at most one program run is active at any
\* time, a run being active from the accepted startProgram until its
\* runProgram invocation has returned (its Finalizing loop included).
C1_AtMostOneActiveRun ==
    \A u \in Units : Cardinality(LiveRuns(u)) <= 1

\* C2: startProgram succeeds if and only if the unit is Stopped or Aborted
\* at the call; an accepted call takes the next run identifier, creates the
\* Result, launches the run loop and sets the unit Running; a rejected call
\* returns BadInvalidState and changes nothing of the program (no Result, no
\* run loop, no run identifier, the run-state as it was).
C2_StartGuard ==
    [][(last = NoCall /\ last'.op = "startProgram") =>
          IF unitState[last'.unit] \in {Stopped, Aborted}
          THEN /\ last'.status = Good
               /\ last'.out = runId + 1
               /\ runId' = runId + 1
               /\ Len(results') = Len(results) + 1
               /\ Len(runs') = Len(runs) + 1
               /\ runs'[Len(runs')].pc = "main"
               /\ unitState'[last'.unit] = Running
          ELSE /\ last'.status = BadInvalidState
               /\ UNCHANGED prog]_vars

\* C2 witness: a startProgram call was rejected on a unit in its stop dwell
\* while the run it would have duplicated is still alive
C2_Witness ==
    /\ last.op = "startProgram"
    /\ last.status = BadInvalidState
    /\ unitState[last.unit] = Stopping
    /\ LiveRuns(last.unit) # {}

\* C3: stopProgram and abortProgram succeed if and only if the unit is
\* Running at the call: an accepted call sets the transitive state and
\* schedules the dwell timer to the final state; a rejected call returns
\* BadInvalidState, schedules no timer and leaves the run-state as it was.
C3_StopAbortGuard ==
    [][(last = NoCall /\ last'.op \in {"stopProgram", "abortProgram"}) =>
          LET u == last'.unit
              stop == last'.op = "stopProgram"
          IN IF unitState[u] = Running
             THEN /\ last'.status = Good
                  /\ unitState'[u] = IF stop THEN Stopping ELSE Aborting
                  /\ \E i \in 1..Len(timers') :
                         /\ timers'[i].kind = "dwell"
                         /\ timers'[i].src = last'.op
                         /\ timers'[i].unit = u
                         /\ timers'[i].rem = stopGrace
                         /\ timers'[i].to = IF stop THEN Stopped ELSE Aborted
             ELSE /\ last'.status = BadInvalidState
                  /\ UNCHANGED prog]_vars

\* C3 witness: an abortProgram call was rejected on a unit that a stopProgram
\* call had put in its dwell, and the stop dwell timer is the only one
C3_Witness ==
    /\ last.op = "abortProgram"
    /\ last.status = BadInvalidState
    /\ unitState[last.unit] = Stopping
    /\ Cardinality({i \in 1..Len(timers) : timers[i].kind = "dwell"}) = 1

\* C4: after an abortProgram accepted while the run is in its main phase,
\* and with no request since, the run-state is Aborted in the quiescent
\* state: the run's loop has returned and no timer is pending.
C4_AbortEndsAborted ==
    \A u \in Units :
        (watch[u] = "abortMain" /\ LiveRuns(u) = {} /\ timers = <<>>)
            => unitState[u] = Aborted

\* C5: a run that leaves its main loop because the unit is no longer Running
\* does not enter the Finalizing step with its delay loop (and so never
\* reaches the setState(Stopped) that ends that loop).
C5_EarlyExitSkipsFinalizing ==
    early = {}

\* C6: from an accepted stopProgram on, and with no request since, the
\* run-state takes no value other than Stopping and Stopped.
C6_StopStaysStopped ==
    \A u \in Units : watch[u] = "stop" => unitState[u] \in {Stopping, Stopped}

\* C7: a run started on a Stopped unit and followed by no stop, abort or
\* health failure has its unit Running for as long as the run is alive.
C7_UndisturbedRunStaysRunning ==
    \A r \in clean : unitState[runs[r].unit] = Running

\* C8: a run in its main phase whose unit has left Running since the run's
\* last check makes no further main-phase progress: its next check ends the
\* main phase.
C8_CancellationWithinOneTick ==
    [][\A r \in left : ~(runs'[r].pc = "main" /\ runs'[r].t # runs[r].t)]_vars

\* C9: in every state where no debounced recomputation is pending,
\* machinery-item-state is Executing if and only if at least one functional
\* unit's run-state is Running.
C9_ProjectionSettled ==
    (\A i \in 1..Len(timers) : timers[i].kind # "debounce")
        => (itemState = "Executing" <=> \E u \in Units : unitState[u] = Running)

\* C9 witness: the projection has settled on Executing while a run is in
\* its main phase
C9_Witness ==
    /\ \A i \in 1..Len(timers) : timers[i].kind # "debounce"
    /\ itemState = "Executing"
    /\ \E r \in 1..Len(runs) :
           runs[r].pc = "main" /\ runs[r].t > 0 /\ unitState[runs[r].unit] = Running

\* C10: a health change to FAILURE leaves machinery-item-state OutOfService,
\* and every unit that was Running is Aborting immediately, with the timer
\* of the fixed grace period pending in full that sets it Aborted; when the
\* grace period of a health reaction ends, the unit becomes Aborted.
C10_HealthFailure ==
    [][/\ (health' = "FAILURE" /\ onDeviceHealthChanged("FAILURE")) =>
              /\ itemState' = "OutOfService"
              /\ \A u \in Units : unitState[u] = Running =>
                     /\ unitState'[u] = Aborting
                     /\ \E i \in 1..Len(timers') :
                            /\ timers'[i].kind = "dwell"
                            /\ timers'[i].src = "onDeviceHealthChanged"
                            /\ timers'[i].unit = u
                            /\ timers'[i].rem = healthGrace
                            /\ timers'[i].to = Aborted
       /\ \A i \in 1..Len(timers) :
              (DwellElapsed(i) /\ timers[i].src = "onDeviceHealthChanged") =>
                  unitState'[timers[i].unit] = Aborted]_vars

\* C10 witness: the grace period of a health reaction has ended on a unit
\* whose run is still alive: the unit is Aborted, the device in FAILURE
C10_Witness ==
    /\ health = "FAILURE"
    /\ \E u \in Units :
           /\ unitState[u] = Aborted
           /\ LiveRuns(u) # {}
           /\ \A i \in 1..Len(timers) : timers[i].kind # "dwell"
    /\ \A r \in 1..Len(results) : results[r].stopped # NoStamp

\* dwell timers pending for unit u in the timer list tm
DwellTimers(tm, u) ==
    Cardinality({i \in 1..Len(tm) : tm[i].kind = "dwell" /\ tm[i].unit = u})

\* C11: on a FAILURE report every unit that is not Running keeps its
\* run-state and gets no timer to Aborted; a health change to any other
\* value changes no state machine and schedules nothing.
C11_CascadeFrame ==
    [][\A value \in EnumDeviceHealth :
          (health' = value /\ onDeviceHealthChanged(value)) =>
              IF value = "FAILURE"
              THEN \A u \in Units : unitState[u] # Running =>
                       /\ unitState'[u] = unitState[u]
                       /\ DwellTimers(timers', u) = DwellTimers(timers, u)
              ELSE UNCHANGED <<unitState, tcState, deviceState, itemState, opMode,
                               timers>>]_vars

\* C11 witness: FAILURE was reported on a unit in its stop dwell, after the
\* debounce of the stop had fired: the unit is still Stopping with the one
\* timer of the stop
C11_Witness ==
    /\ health = "FAILURE"
    /\ itemState = "OutOfService"
    /\ \A i \in 1..Len(timers) : timers[i].kind # "debounce"
    /\ \E u \in Units :
           /\ unitState[u] = Stopping
           /\ DwellTimers(timers, u) = 1
           /\ \A i \in 1..Len(timers) :
                  timers[i].kind = "dwell" => timers[i].to = Stopped

\* C12: whenever the device state changes to a state other than Operate the
\* reaction sets machinery-item-state to NotAvailable; a change to Operate
\* leaves machinery-item-state as it is.
C12_NotAvailableOutsideOperate ==
    [][deviceState' # deviceState =>
          IF deviceState' = "Operate"
          THEN itemState' = itemState
          ELSE itemState' = "NotAvailable"]_vars

\* C13: every change of the device state is one of the steps
\* Initialization->Operate, Operate->Sleep, Operate->Shutdown,
\* Shutdown->Initialization, Sleep->Operate.
C13_DeviceTableSteps ==
    [][deviceState' # deviceState =>
          <<deviceState, deviceState'>> \in
              {<<"Initialization", "Operate">>, <<"Operate", "Sleep">>,
               <<"Operate", "Shutdown">>, <<"Shutdown", "Initialization">>,
               <<"Sleep", "Operate">>}]_vars

\* C14: gotoSleep or gotoShutdown while the device is not in Operate, and
\* gotoOperate while it is in Shutdown, report BadInvalidState and leave the
\* device state and the operation mode unchanged.
C14_DeviceRequestGuards ==
    [][(\/ (onGotoSleep \/ onGotoShutdown) /\ deviceState # "Operate"
        \/ onGotoOperating /\ deviceState = "Shutdown") =>
          /\ DeviceCallStatus = BadInvalidState
          /\ UNCHANGED <<deviceState, opMode>>]_vars

\* C15: after a gotoShutdown accepted in Operate, and with no request since,
\* the device is Shutdown until the shutdown dwell ends, then Initialization
\* until the initialization dwell ends, then Operate.
C15_PowerCycle ==
    /\ cycle = "down" => deviceState = "Shutdown"
    /\ cycle = "init" => deviceState = "Initialization"
    /\ cycle = "up" => deviceState = "Operate"

\* C16: each time the device enters Operate the operation mode is set to
\* Processing, and each time it enters Initialization, Sleep or Shutdown the
\* operation mode is set to None.
C16_ModeFollowsDeviceState ==
    [][deviceState' # deviceState =>
          opMode' = IF deviceState' = "Operate" THEN "Processing" ELSE "None"]_vars

\* C17: open succeeds only from Closed (to Opened), close only from Opened
\* (to Closed), lock only from Closed (to Locked), unlock only from Locked
\* (to Closed); every other request returns BadInvalidState and leaves the
\* cover state as it was; the cover state is always Closed, Opened or Locked
\* and never changes directly between Opened and Locked.
C17_CoverTable ==
    [][/\ coverState' \in {"Closed", "Opened", "Locked"}
       /\ <<coverState, coverState'>> \notin
              {<<"Opened", "Locked">>, <<"Locked", "Opened">>}
       /\ last'.op \in {"open", "close", "lock", "unlock"} =>
              LET from == IF last'.op = "open" THEN "Closed"
                          ELSE IF last'.op = "close" THEN "Opened"
                          ELSE IF last'.op = "lock" THEN "Closed" ELSE "Locked"
                  to == IF last'.op = "open" THEN "Opened"
                        ELSE IF last'.op = "lock" THEN "Locked" ELSE "Closed"
              IN IF coverState = from
                 THEN last'.status = Good /\ coverState' = to
                 ELSE last'.status = BadInvalidState /\ coverState' = coverState]_vars

\* C17 witness: a lock request was refused on the opened cover
C17_Witness ==
    /\ last.op = "lock"
    /\ last.status = BadInvalidState
    /\ coverState = "Opened"

\* C18: start of the temperature controller when it is neither Stopped nor
\* Aborted, and stop when it is not Running, return BadInvalidState and leave
\* the controller's state as it was.
C18_ControllerGuards ==
    [][(\/ onStartTemperatureController /\ tcState \notin {Stopped, Aborted}
        \/ onStopTemperatureController /\ tcState # Running) =>
          /\ ControllerCallStatus = BadInvalidState
          /\ tcState' = tcState]_vars

\* the nodes that hold a function set, and the nodes below the device
FunctionSetParents(fns) ==
    {n \in {functionalUnit(u) : u \in SeqToSet(FunctionalUnitNames)} \cup
           {ladsFunction(f) : f \in fns} : HasFunctionSet(fns, n)}

Descendants(fns) ==
    {functionalUnitSet}
    \cup {functionalUnit(u) : u \in SeqToSet(FunctionalUnitNames)}
    \cup {functionSet(n) : n \in FunctionSetParents(fns)}
    \cup {ladsFunction(f) : f \in fns}

\* one reference from each container to each node directly below it
HierarchyReferences(fns) ==
    {<<device, functionalUnitSet>>}
    \cup {<<functionalUnitSet, functionalUnit(u)>> : u \in SeqToSet(FunctionalUnitNames)}
    \cup {<<n, functionSet(n)>> : n \in FunctionSetParents(fns)}
    \cup {<<functionSet(Node("", FunctionParent[f])), ladsFunction(f)>> : f \in fns}

\* the nodes a chain of references leads to from the nodes seen
RECURSIVE Observed(_, _)
Observed(refs, seen) ==
    LET next == seen \cup UNION {findReferencesAsObject(refs, n) : n \in seen}
    IN IF next = seen THEN seen ELSE Observed(refs, next)

\* C19: a call of buildLADSEventNotifierTree that follows another call on the
\* unchanged device leaves the collection of HasNotifier references as it
\* was; a call that follows after functions were added adds the references
\* then missing, one each, and no other.
C19_BuildIdempotent ==
    [][(builds >= 1 /\ builds' = builds + 1) =>
          IF unchanged
          THEN references' = references
          ELSE references' = references (+)
                   SetToBag(HierarchyReferences(functions) \ BagToSet(references))]_vars

\* C20: after buildLADSEventNotifierTree(device) every function at every
\* depth, every function set, every functional unit and the functional-unit
\* set is marked as an event source and is reached from the device by a
\* chain of HasNotifier references.
C20_AllMarkedAndObserved ==
    (builds >= 1 /\ unchanged) =>
        \A n \in Descendants(functions) :
            /\ n \in eventNotifier
            /\ n \in Observed(references, {device})

\* C21: the k-th successful startProgram call returns Run-k, the first Run-1:
\* the counter starts at 0, a successful call returns the counter plus one,
\* advances the counter by one and creates one Result under that identifier;
\* a refused call leaves counter and Results as they are; so the identifiers
\* are pairwise distinct and there are as many Results as successful calls.
C21_RunIdentifiers ==
    /\ runId = 0 /\ results = <<>>
    /\ [][/\ Len(results') = runId'
          /\ (last = NoCall /\ last'.op = "startProgram") =>
                IF last'.status = Good
                THEN /\ last'.out = runId + 1
                     /\ runId' = runId + 1
                     /\ Len(results') = Len(results) + 1
                     /\ activeProgram'[last'.unit].deviceProgramRunId = last'.out
                ELSE /\ runId' = runId
                     /\ results' = results
          /\ ~(last = NoCall /\ last'.op = "startProgram") =>
                runId' = runId /\ Len(results') = Len(results)]_vars

\* C21 witness: the second successful startProgram call has returned Run-2
C21_Witness ==
    /\ last.op = "startProgram"
    /\ last.status = Good
    /\ last.out = 2
    /\ Len(results) = 2

\* C22: a startProgram call with malformed input arguments on a unit in
\* Stopped or Aborted returns BadInvalidArgument, creates no Result, takes no
\* run identifier and leaves the unit's state as it was.
C22_MalformedArguments ==
    [][(/\ last'.op = "startProgram"
        /\ last'.inputArguments = "malformed"
        /\ unitState[last'.unit] \in {Stopped, Aborted}) =>
          /\ last'.status = BadInvalidArgument
          /\ results' = results
          /\ runId' = runId
          /\ unitState' = unitState]_vars

\* C23: with no direct request to the temperature controller, the step of
\* startProgram that sets the unit to Running sets the controller to Running
\* too, and when a run ends, after its full course or an early exit, its
\* Result has its stopped timestamp and the unit and the controller are both
\* Stopped.
C23_ControllerCoupling ==
    [][/\ runId' = runId + 1 =>
            /\ unitState'[runs'[runId'].unit] = Running
            /\ tcState' = Running
       /\ \A r \in 1..Len(runs) :
            (runs[r].pc # "done" /\ runs'[r].pc = "done") =>
                /\ results'[r].stopped # NoStamp
                /\ unitState'[runs[r].unit] = Stopped
                /\ tcState' = Stopped]_vars

\* C24: a Result is written only by the runProgram invocation that created
\* it: it is created with its started timestamp and no stopped timestamp in
\* the step that starts its run; started never changes; stopped is written
\* once, by its own run on leaving the main loop, and a run that has returned
\* has written it; once stopped is set the Result changes only by entries
\* added to its variable set.
C24_ResultOwnership ==
    [][/\ \A r \in (Len(results) + 1)..Len(results') :
            /\ r = runId'
            /\ runId' = runId + 1
            /\ results'[r].started # NoStamp
            /\ results'[r].stopped = NoStamp
       /\ \A r \in 1..Len(results) :
            /\ results'[r].started = results[r].started
            /\ results'[r].variables >= results[r].variables
            /\ results'[r] # results[r] =>
                  /\ runs[r].pc = "main" /\ runs'[r].pc = "final"
                  /\ \A q \in 1..Len(results) \ {r} : results'[q] = results[q]
            /\ results'[r].stopped # results[r].stopped =>
                  results[r].stopped = NoStamp
            /\ runs'[r].pc = "done" => results'[r].stopped # NoStamp]_vars

\* C24 witness: the first run has written its stopped timestamp and is still
\* in its finalizing loop while a second run, whose Result is open, is live
C24_Witness ==
    /\ Len(results) = 2
    /\ runs[1].pc = "final"
    /\ results[1].stopped # NoStamp
    /\ results[1].variables = 1
    /\ runs[2].pc = "main"
    /\ results[2].stopped = NoStamp

\* C25: in every step the supervisor raises no event when raiseEvents is
\* false and, when it is true, one event for each change notification it
\* observed in that step, in their order; and every change of the device
\* state, the machinery-item-state, the operation mode, a unit's state and
\* the device health is among the notifications observed.
C25_OneEventPerChange ==
    [][/\ Len(events') = IF raiseEvents THEN Len(observed') ELSE 0
       /\ \A k \in 1..Len(events') : events'[k] = observed'[k]
       /\ deviceState' # deviceState =>
             \E k \in 1..Len(observed') :
                 observed'[k] = Changed("deviceState", 0, deviceState')
       /\ itemState' # itemState =>
             \E k \in 1..Len(observed') :
                 observed'[k] = Changed("machineryItemState", 0, itemState')
       /\ opMode' # opMode =>
             \E k \in 1..Len(observed') :
                 observed'[k] = Changed("machineryOperationMode", 0, opMode')
       /\ health' # health =>
             \E k \in 1..Len(observed') :
                 observed'[k] = Changed("deviceHealth", 0, health')
       /\ \A u \in Units : unitState'[u] # unitState[u] =>
             \E k \in 1..Len(observed') :
                 observed'[k] = Changed("functionalUnitState", u, unitState'[u])]_vars

\* C25 witness: with raiseEvents true a FAILURE report on a Running unit has
\* raised three events: for the health, the machinery-item-state and the unit
C25_Witness ==
    /\ raiseEvents
    /\ Len(events) = 3
    /\ events[1].variable = "deviceHealth"
    /\ events[2].variable = "machineryItemState"
    /\ events[3] = Changed("functionalUnitState", 1, Aborting)

\* C26: no step of startProgram, stopProgram, abortProgram or runProgram
\* (its loop and the dwell callbacks of stop and abort) and no cover or
\* controller operation changes the machinery-item-state or the operation
\* mode; a step that changes one of them is a step of the supervisor's own
\* handlers.
C26_SupervisorOwnsItemStateAndMode ==
    [][(itemState' # itemState \/ opMode' # opMode) =>
          /\ ~(OrchestrationStep \/ FunctionStep)
          /\ SupervisorStep]_vars

\* C26 witness: a run has started and the unit is Running, the cover was
\* opened and the controller is stopping, and the supervisor's debounced
\* recomputation has set Executing
C26_Witness ==
    /\ runId = 1
    /\ unitState[1] = Running
    /\ coverState = "Opened"
    /\ tcState = Stopping
    /\ itemState = "Executing"

\* C27: getAliasName(variable) is the names of the nodes from the device set
\* down to the variable, in that order, without the structural names, joined
\* by '_'; no name of a node above the device set is in it.
C27_AliasName ==
    aliasName # NoAlias =>
        LET root == CHOOSE i \in 1..Len(ancestry) : ancestry[i].nodeId = deviceSet
            names == [k \in 1..(Len(ancestry) - root + 1) |-> ancestry[root + k - 1].name]
            kept == SelectSeq(names, LAMBDA name :
                        name \notin {"DeviceSet", "FunctionalUnitSet", "FunctionSet",
                                     "Components", "TaskSet", "ProgramManager",
                                     "DeviceState", "FunctionalUnitState",
                                     "ControlFunctionState", "CoverState"})
        IN aliasName = join(kept, "_")

\* C28: a step in which a unit leaves Running is an accepted stopProgram or
\* abortProgram, a report of health FAILURE, or the return of the run that
\* the last successful startProgram on the unit started; the loop of an
\* earlier run and the dwell timer of an earlier stop or abort never take
\* the unit out of Running.
C28_OnlyOwnCausesEndRunning ==
    [][\A u \in Units :
          (Includes(unitState[u], Running) /\ ~Includes(unitState'[u], Running)) =>
              \/ stopProgram(u)
              \/ abortProgram(u)
              \/ onDeviceHealthChanged("FAILURE")
              \/ LET own == {r \in 1..Len(runs) : runs[r].unit = u}
                     latest == CHOOSE r \in own : \A q \in own : q <= r
                 IN runs[latest].pc = "final" /\ runs'[latest].pc = "done"]_vars

\* C29: a device in Sleep leaves Sleep only by a gotoOperate or gotoShutdown
\* request; no initialization or shutdown timer set before the device
\* entered Sleep changes the device state afterwards.
C29_SleepUntilRequest ==
    [][(deviceState = "Sleep" /\ deviceState' # "Sleep") =>
          (onGotoOperating \/ onGotoShutdown)]_vars

\* C30: while the device health is FAILURE the machinery-item-state is
\* OutOfService: no debounced recomputation and no reaction to a change of
\* the device state puts Executing or NotExecuting in its place.
C30_OutOfServiceWhileFailure ==
    health = "FAILURE" => itemState = "OutOfService"

\* C31: when startProgram has returned Good, the synchronous head of
\* runProgram has already run: the unit is Running, the temperature
\* controller is Running, the Result of the returned run identifier exists
\* with a started timestamp and no stopped one, and the active program
\* carries that identifier; so a second startProgram call on the unit, sent
\* before any timer fires, is refused with BadInvalidState.
C31_StartIsSynchronous ==
    (last.op = "startProgram" /\ last.status = Good) =>
        /\ unitState[last.unit] = Running
        /\ tcState = Running
        /\ last.out \in 1..Len(results)
        /\ results[last.out].started # NoStamp
        /\ results[last.out].stopped = NoStamp
        /\ activeProgram[last.unit].deviceProgramRunId = last.out
        /\ startProgramStatus(last.unit) = BadInvalidState

\* C31 witness: the second successful startProgram call has returned, the
\* Result of the first run beside that of the second
C31_Witness ==
    /\ last.op = "startProgram"
    /\ last.status = Good
    /\ last.out = 2
    /\ results[1].stopped # NoStamp
    /\ unitState[last.unit] = Running

\* C32: a startProgram call on a unit in Stopped or Aborted whose template
\* identifier names no template of the unit's set returns BadNotFound and
\* starts no run: no Result is created, the unit's state and the current
\* template of the active program stay as they were.
C32_UnknownTemplate ==
    [][(/\ last'.op = "startProgram"
        /\ last'.template \notin ProgramTemplates
        /\ CanStart(unitState[last'.unit])) =>
          /\ last'.status = "BadNotFound"
          /\ results' = results
          /\ unitState' = unitState
          /\ activeProgram'[last'.unit].currentProgramTemplate =
                 activeProgram[last'.unit].currentProgramTemplate]_vars

\* C33: after every state change of a promoted machine, currentState.id
\* refers to a state of the machine's state set whose name is the state that
\* was set, in whatever order getStates() lists the states; a machinery item
\* state set to NotExecuting never has the pointer at Executing.
C33_CurrentStateId ==
    \A h \in 1..Len(helpers) :
        helpers[h].currentState # "" =>
            /\ helpers[h].currentStateId \in SeqToSet(helpers[h].states)
            /\ helpers[h].currentStateId = helpers[h].currentState

\* C34: once a machine with a parent and its parent both have a current
\* state, the parent's effective display name is the parent's state label and
\* the child's state label joined by a dot, after a change of the child's
\* state and after a change of the parent's state alike.
C34_ComposedDisplayName ==
    \A h \in 1..Len(helpers) :
        LET parent == helpers[h].parentStateMachineHelper
        IN (/\ parent # 0
            /\ helpers[h].currentState # ""
            /\ helpers[parent].currentState # "") =>
              helpers[parent].effectiveDisplayName =
                  join(<<helpers[parent].currentState, helpers[h].currentState>>, ".")

\* the recomputations of machinery-item-state that are scheduled and not run
PendingRecomputations(tm) == {i \in 1..Len(tm) : tm[i].kind = "debounce"}

\* C35: the recomputation of machinery-item-state is debounced and
\* coalescing: the unit state changes that fall into one debounce window
\* share one scheduled recomputation, so at no time is more than one
\* recomputation pending, and a recomputation that runs sets the item state
\* from the units' states as they are when it runs.
C35_CoalescedRecomputation ==
    [][/\ Cardinality(PendingRecomputations(timers')) <= 1
       /\ Cardinality(PendingRecomputations(timers'))
              < Cardinality(PendingRecomputations(timers)) =>
            itemState' = adjustMachineryItemState(unitState)]_vars

\* the ticks a run loop has behind it: the sleeps of the main loop, then
\* those of the finishing loop; TicksOfRun is what a full course takes
TicksBehind(run) ==
    IF run.pc = "main" THEN run.t \div delta
    ELSE IF run.pc = "final" THEN (runTime \div delta) + 1 + (run.t \div delta)
    ELSE (runTime \div delta) + 1 + (finishTime \div delta) + 1

\* the sleep of run r has ended and its continuation runs in this step
TickOfRun(r) ==
    /\ \E i \in 1..Len(timers) :
           timers[i].kind = "tick" /\ timers[i].run = r /\ timers[i].rem = 0
    /\ ~\E i \in 1..Len(timers') :
           timers'[i].kind = "tick" /\ timers'[i].run = r /\ timers'[i].rem = 0

\* C36: every run loop that was started returns, after at most the ticks of
\* a full course, whatever start, stop and abort requests and health reports
\* arrive: a run that has not returned sleeps on exactly one timer, every
\* tick takes it one step further and nothing takes it back; the stopped
\* timestamp of its Result is written once, when the run leaves its main
\* loop, so a run that has returned has a Result with a stopped timestamp.
C36_RunLoopTerminates ==
    /\ [](\A r \in 1..Len(runs) :
            /\ runs[r].pc # "done" =>
                 Cardinality({i \in 1..Len(timers) :
                     timers[i].kind = "tick" /\ timers[i].run = r}) = 1
            /\ runs[r].pc # "main" <=> results[r].stopped # NoStamp)
    /\ [][\A r \in 1..Len(runs) :
            /\ TicksBehind(runs'[r]) >= TicksBehind(runs[r])
            /\ TickOfRun(r) => TicksBehind(runs'[r]) > TicksBehind(runs[r])
            /\ results'[r].stopped # results[r].stopped =>
                 /\ results[r].stopped = NoStamp
                 /\ runs[r].pc = "main" /\ runs'[r].pc = "final"]_vars
    /\ []<>(\A r \in 1..Len(runs) : runs[r].pc = "done")

\* C36 witness: the second run has returned after an early exit, its Result
\* and that of the first run with their stopped timestamps
C36_Witness ==
    /\ Len(runs) = 2
    /\ runs[1].pc = "done" /\ runs[2].pc = "done"
    /\ results[1].stopped # NoStamp /\ results[2].stopped # NoStamp
    /\ unitState[runs[2].unit] \in {Aborted, Aborting}

\* C37: the currentRuntime of the active program never exceeds the time that
\* has passed since the run it reports on started, the completed ticks times
\* delta, while the run is in its main loop and when it leaves it, after its
\* full course or early after a stop or an abort; currentRuntime never
\* exceeds estimatedRuntime and currentStepRuntime never exceeds
\* estimatedStepRuntime.
C37_ReportedRuntime ==
    [][\A u \in Units :
         LET r == activeProgram'[u].deviceProgramRunId
         IN r # 0 =>
              /\ activeProgram'[u].currentRuntime <= activeProgram'[u].estimatedRuntime
              /\ activeProgram'[u].currentStepRuntime
                     <= activeProgram'[u].estimatedStepRuntime
              /\ runs'[r].pc = "main" =>
                     activeProgram'[u].currentRuntime <= runs'[r].elapsed
              /\ (r <= Len(runs) /\ runs[r].pc = "main" /\ runs'[r].pc = "final") =>
                     activeProgram'[u].currentRuntime <= runs[r].elapsed]_vars

\* C38: a step that changes the device state or sets or ends a dwell of the
\* power cycle, by a request or by a timer, leaves the state of every
\* functional unit, of the temperature controller and of the cover as they
\* were; and what startProgram returns and does follows from the unit's state
\* alone, in every device state and with every device health.
C38_PowerFrame ==
    [][/\ (\/ deviceState' # deviceState
           \/ Cardinality(PowerTimers)' # Cardinality(PowerTimers)) =>
             UNCHANGED <<unitState, tcState, coverState>>
       /\ last'.op = "startProgram" =>
             /\ last'.status = Good <=> unitState[last'.unit] \in {Stopped, Aborted}
             /\ last'.status = Good =>
                  unitState'[last'.unit] = Running /\ runId' = runId + 1
             /\ last'.status # Good => UNCHANGED prog]_vars

\* C38 witness: the shutdown dwell has just ended and the device entered
\* Initialization while the unit and the controller are Running with the
\* cover open and the health not NORMAL
C38_Witness ==
    /\ deviceState = "Initialization"
    /\ \E i \in 1..Len(timers) :
           timers[i].kind = "init" /\ timers[i].rem = initializationTime
    /\ runId = 1
    /\ unitState[1] = Running
    /\ tcState = Running
    /\ coverState = "Opened"
    /\ health = "MAINTENANCE_REQUIRED"

====
